---- MODULE Spec2Model ----
(***************************************************************************)
(* Model of the Dataflow batch worker (worker/batchworker.py): the main    *)
(* lease loop of BatchWorker.run, BatchWorker.do_work, and the progress    *)
(* reporting thread of ProgressReporter.                                   *)
(*                                                                         *)
(* Two threads are modelled: the main worker thread (position mpc) and the *)
(* progress reporting thread (position rpc).  Every call of the service    *)
(* client's report_status is split in two steps, the call and its return,  *)
(* so that calls in flight are states of the model.  The sequence calls is *)
(* the history of the report_status calls made for the current work item.  *)
(***************************************************************************)
EXTENDS Naturals, Integers, Sequences, FiniteSets, TLC

\* ---------------------------------------------------------------- bounds
\* Work items the service hands out in one run.
MaxItems == 2
\* Progress reports the reporting thread sends for one work item.
MaxReports == 2
\* DynamicSplitResults the executor produces for one work item.
MaxSplits == 2
\* Retries of report_completion_status made by the backoff decorator.
MaxRetries == 1
\* Consecutive lease attempts that find no work.
MaxNoWork == 3
\* Sleeps in the timed view of the reporting cycle: those of the reporting
\* thread and those of the main thread between two work items.
MaxCycles == 2

\* ProgressReporter.DEFAULT_MIN_REPORTING_INTERVAL_SECS
MinInterval == 5
\* ProgressReporter.DEFAULT_MAX_REPORTING_INTERVAL_SECS
MaxInterval == 600
\* ProgressReporter.DEFAULT_LEASE_RENEWAL_LATENCY_SECS
LeaseRenewalLatency == 5

\* The report index the lease response seeds the work item with.
InitialReportIndices == {1, 2}

None == "none"

\* Work item kinds: map_task set, source_operation_split_task set, neither.
Kinds == {"map_task", "source_split", "unknown"}

\* Outcomes of processing suggestedStopPoint of a progress response: no
\* suggestion, request_dynamic_split returned None, or returned a result.
SplitOutcomes == {"nosuggest", "reject", "accept"}

VARIABLES
  mpc,               \* position of the main worker thread
  rpc,               \* position of the progress reporting thread
  shutdown,          \* BatchWorker._shutdown
  deferred,          \* run(): deferred_exception_details
  session_load,      \* run(): whether _load_main_session was called
  wi,                \* the leased WorkItem: kind, next_report_index, done,
                     \* lease_expire_time, report_status_interval
  lock,              \* holder of work_item.lock
  executor,          \* work_executor: none, built, running, ok, raised
  stopped,           \* ProgressReporter._stopped
  stop_req,          \* ProgressReporter._stop_reporting_progress
  dsr,               \* ProgressReporter.dynamic_split_result_to_report (0 = None)
  exception_details, \* do_work(): exception_details
  retries,           \* retries made so far by report_completion_status
  calls,             \* history: report_status calls for the current work item
  nsplit,            \* history: split results produced for the current item
  nloop,             \* history: progress reports sent by the reporting thread
  late,              \* history: those sent with _stop_reporting_progress set, for
                     \* the stop_reporting_progress under way
  leased,            \* history: work items leased so far
  pend_at_stop,      \* history: dsr when stop_reporting_progress left its wait (-1 before)
  reporter_built,    \* history: a ProgressReporter exists for the current item
  seed,              \* history: the report index the lease seeded
  slept,             \* history: the thread slept since its last progress report
  nowork,            \* history: consecutive lease attempts that found no work
  jitters,           \* history: jittered sleeps made for these attempts
  last_sleep,        \* history: length of the last sleep of run(), in ms
  t_pc,              \* timed view of the reporting cycle: position
  t_now,             \* timed view: time.time(), in ms
  t_lease,           \* timed view: work_item.lease_expire_time
  t_sugg,            \* timed view: work_item.report_status_interval
  t_sleep,           \* timed view: sleep_time of the reporting thread, in ms
                     \* (0 when none runs)
  t_cycles,          \* timed view: sleeps of the reporting thread so far
  t_waits,           \* timed view: sleeps of the main thread so far
  t_tz,              \* timed view: UTC offset of the worker's local time, in ms
  t_stamp,           \* timed view: formatted_current_time sent with the last report
  t_last,            \* timed view: BatchWorker.last_memory_usage_report_time (-1 = None)
  t_logged,          \* timed view: the last log_memory_usage_if_needed call logged
  t_deferred,        \* timed view: run(): deferred_exception_details is set
  t_split            \* timed view: dynamic_split_result_to_report of the
                     \* ProgressReporter of do_work is not None

vars == <<mpc, rpc, shutdown, deferred, session_load, wi, lock, executor,
          stopped, stop_req, dsr, exception_details, retries, calls, nsplit,
          nloop, late, leased, pend_at_stop, reporter_built, seed, slept, nowork,
          jitters, last_sleep, t_pc, t_now, t_lease, t_sugg, t_sleep,
          t_cycles, t_waits, t_tz, t_stamp, t_last, t_logged, t_deferred,
          t_split>>

\* The variables of the timed view of the reporting cycle.
tvars == <<t_pc, t_now, t_lease, t_sugg, t_sleep, t_cycles, t_waits, t_tz, t_stamp,
           t_last, t_logged, t_deferred, t_split>>

NoItem == [kind |-> None, nri |-> 0, done |-> FALSE, lease |-> None, rsi |-> None]

\* leaseExpireTime and reportStatusInterval of the lease response.
LeasedTimes == [lease |-> "lease0", rsi |-> "rsi0"]

\* leaseExpireTime and reportStatusInterval of the response to the report
\* that carried index i: the service answers new times with every report,
\* and with every second one a lease time that datetime() rejects.
ResponseTimes(i) ==
  IF i % 2 = 1 THEN [lease |-> "lease1", rsi |-> "rsi1"]
               ELSE [lease |-> "lease_impossible", rsi |-> "rsi2"]

\* ------------------------------------------------------ service client
\* apiclient.DataflowWorkerClient.report_status attaches
\* work_item.next_report_index as the report index of the request.
ReportIndexOf(w) == w.nri

\* The service answers a report carrying index i with nextReportIndex i + 1.
NextReportIndex(i) == i + 1

\* The progress argument of report_status: get_progress() of the executor in
\* the reporting thread and in stop_reporting_progress, the default None in
\* report_completion_status.
ProgressArg(who) == IF who = "main" THEN None ELSE "progress"

\* ProgressReporter.report_status, the request: `progress if not completed
\* else None'.
CarriedProgress(completed, progress) == IF completed THEN None ELSE progress

\* One report_status call: what the request carries, who made it, and (once
\* it returned) its outcome and the split result its response produced.
Call(completed, w, split, exc, sor, who) ==
  [completed |-> completed,
   idx       |-> ReportIndexOf(w),
   prog      |-> CarriedProgress(completed, ProgressArg(who)),
   dsr       |-> split,
   exc       |-> exc,
   sor       |-> sor,
   by        |-> who,
   res       |-> "pending",
   got       |-> 0]

\* A report_status that attaches the pending split result to every report.
CarriedSplit_Always(completed, pending) == pending

\* A report_status that never attaches the pending split result.
CarriedSplit_Dropped(completed, pending) == 0

\* ProgressReporter.report_status, the request: a completion report carries
\* no dynamic split result, a progress report carries the pending one.
CarriedSplit(completed, pending) == IF completed THEN 0 ELSE pending

\* The return of the call made by thread who is recorded in the history.
Returned(log, who, r, g) ==
  [i \in DOMAIN log |->
     IF log[i].by = who /\ log[i].res = "pending"
       THEN [log[i] EXCEPT !.res = r, !.got = g]
       ELSE log[i]]

InFlight(who) == \E i \in DOMAIN calls : calls[i].by = who /\ calls[i].res = "pending"

\* The index sent by the call of thread who that is in flight.
SentIndex(who) ==
  LET i == CHOOSE j \in DOMAIN calls : calls[j].by = who /\ calls[j].res = "pending"
  IN calls[i].idx

\* A process_report_status_response that leaves next_report_index alone.
ProcessedIndex_Stale(old, fromResponse) == old

\* ProgressReporter.process_report_status_response: next_report_index is
\* taken from the response.
ProcessedIndex(old, fromResponse) == fromResponse

\* A report_status that processes the response to every report.
ResponseProcessed_Always(completed) == TRUE

\* ProgressReporter.report_status: `if not completed:
\* self.process_report_status_response(response)'
ResponseProcessed(completed) == ~completed

\* process_report_status_response: lease_expire_time and
\* report_status_interval are taken from the response.
ProcessedTimes(w, rp) == [w EXCEPT !.lease = rp.lease, !.rsi = rp.rsi]

\* next_progress_report_interval raises for the times of the work item:
\* datetime() rejects the fields of the lease time.
IntervalRaises(w) == w.lease = "lease_impossible"

\* A report_status that forgets the pending split result when the call fails.
SplitAfterFailure_Reset(pending) == 0

\* ProgressReporter.report_status: the call of the client raises before
\* dynamic_split_result_to_report is reset.
SplitAfterFailure(pending) == pending

\* process_report_status_response: the new dynamic_split_result_to_report.
\* report_status has reset it to None before; a suggested stop point
\* stores what request_dynamic_split returned.
SplitAfterResponse(outcome, fresh) == IF outcome = "accept" THEN fresh ELSE 0

\* ------------------------------------------------------------- do_work
\* get_executor_for_work_item: a work item with neither task raises.
ExecutorKnown(kind) == kind \in {"map_task", "source_split"}

\* A do_work that never takes the deferred branch.
DeferredSet_Ignored(d) == FALSE

\* do_work: `if deferred_exception_details:'
DeferredSet(d) == d # None

\* A stop_reporting_progress that does not wait for the thread at all.
ReporterHasStopped_NoWait(s) == TRUE

\* A stop_reporting_progress that waits for the flag it has set itself.
ReporterHasStopped_OwnFlag(s) == stop_req

\* A stop_reporting_progress that stops waiting once the thread has left its
\* loop.
ReporterHasStopped_StopSeen(s) == s \/ rpc = "finally"

\* stop_reporting_progress: `while not self._stopped: time.sleep(1)'
ReporterHasStopped(s) == s

\* A stop_reporting_progress that always sends a last report.
FlushNeeded_Always(pending) == TRUE

\* stop_reporting_progress: `if self.dynamic_split_result_to_report is not None'
FlushNeeded(pending) == pending # 0

\* A handler that replaces an earlier execution error by the shutdown error.
AfterStopError_Masking(e) == "stop_err"

\* do_work: the handler of an exception raised by stop_reporting_progress.
AfterStopError(e) == IF e = None THEN "stop_err" ELSE e

\* A do_work that passes no exception_details of its own to the report.
CompletionDetails_Dropped(d, e) == IF DeferredSet(d) THEN d ELSE None

\* do_work: exception_details passed to report_completion_status.
CompletionDetails(d, e) == IF DeferredSet(d) THEN d ELSE e

\* A do_work that marks the work item done although the report failed.
DoneAfterFailure_Marked(d) == TRUE

\* do_work: the error of report_completion_status leaves the with statement
\* before `work_item.done = True'.
DoneAfterFailure(d) == d

\* A do_work that keeps work_item.lock when the completion report failed.
LockAfterFailure_Held(l) == l

\* do_work: the error of report_completion_status leaves `with
\* work_item.lock:', which releases the lock.
LockAfterFailure(l) == None

\* A reporting thread whose loop is left only through the test of done.
LoopContinues_UntilDone(flag) == TRUE

\* progress_reporting_thread: `while not self._stop_reporting_progress'
LoopContinues(flag) == ~flag

\* CustomSourceSplitExecutor.response, by what became of execute(): the
\* response of the split when it returned, what the executor held when it
\* raised, its initial value when it was never called.
ExecutorResponse(e) ==
  IF e = "ok" THEN "split_response"
  ELSE IF e = "raised" THEN "response_at_raise"
  ELSE "response_unset"

\* A do_work that passes work_executor.response with every completion
\* report, whatever the executor and the path.
SourceResponse_Always(d, kind, e) == ExecutorResponse(e)

\* do_work: source_split_response of the completion path, read from the
\* executor under the lock when it is a CustomSourceSplitExecutor; the
\* deferred path passes none.
SourceResponse(d, kind, e) ==
  IF ~DeferredSet(d) /\ kind = "source_split" THEN ExecutorResponse(e) ELSE None

\* ------------------------------------------- next_progress_report_interval
Min2(a, b) == IF a < b THEN a ELSE b
Max2(a, b) == IF a > b THEN a ELSE b

\* Seconds as milliseconds: times and durations are counted in ms.
Millis(secs) == secs * 1000

\* The outcome of a conversion: a value, or an exception raised.
Value(v) == [raised |-> FALSE, val |-> v]
Raised == [raised |-> TRUE, val |-> 0]

\* datetime: the proleptic Gregorian calendar.
IsLeap(y) == (y % 4 = 0 /\ y % 100 # 0) \/ y % 400 = 0

DaysInMonth(y, m) ==
  IF m = 2 THEN (IF IsLeap(y) THEN 29 ELSE 28)
  ELSE IF m \in {4, 6, 9, 11} THEN 30 ELSE 31

\* datetime: days from 1970-01-01 to the date y-m-d.
DaysFromCivil(y, m, d) ==
  LET yy  == IF m <= 2 THEN y - 1 ELSE y
      era == yy \div 400
      yoe == yy - era * 400
      mp  == (m + 9) % 12
      doy == (153 * mp + 2) \div 5 + d - 1
      doe == yoe * 365 + yoe \div 4 - yoe \div 100 + doy
  IN era * 146097 + doe - 719468

\* datetime: the date that lies z days after 1970-01-01.
CivilFromDays(z) ==
  LET zz  == z + 719468
      era == zz \div 146097
      doe == zz - era * 146097
      yoe == (doe - doe \div 1460 + doe \div 36524 - doe \div 146096) \div 365
      doy == doe - (365 * yoe + yoe \div 4 - yoe \div 100)
      mp  == (5 * doy + 2) \div 153
      d   == doy - (153 * mp + 2) \div 5 + 1
      m   == IF mp < 10 THEN mp + 3 ELSE mp - 9
      y   == yoe + era * 400 + (IF m <= 2 THEN 1 ELSE 0)
  IN [year |-> y, month |-> m, day |-> d]

\* datetime.datetime.utcnow(): the UTC date and time of the instant ms
\* (milliseconds since the UTC epoch) plus us microseconds.
utcnow(ms, us) ==
  LET civ == CivilFromDays(ms \div 86400000)
      r   == ms % 86400000
  IN [year |-> civ.year, month |-> civ.month, day |-> civ.day,
      hour |-> r \div 3600000, minute |-> (r % 3600000) \div 60000,
      second |-> (r % 60000) \div 1000,
      microsecond |-> (r % 1000) * 1000 + us]

\* A cloud time string: whether it matches rgx_cloud_time with the
\* milliseconds group ("ms"), without it ("sec"), or not at all ("bad"), and
\* the numbers its digit groups spell.
BadCloudTime ==
  [shape |-> "bad", year |-> 0, month |-> 0, day |-> 0, hour |-> 0,
   minute |-> 0, second |-> 0, msec |-> 0]

\* BatchWorker.formatted_current_time:
\* '%04d-%02d-%02dT%02d:%02d:%02d.%03dZ' of utcnow(), with
\* `now.microsecond / 1000' an integer division.
formatted_current_time(now) ==
  [shape |-> "ms", year |-> now.year, month |-> now.month, day |-> now.day,
   hour |-> now.hour, minute |-> now.minute, second |-> now.second,
   msec |-> now.microsecond \div 1000]

\* datetime.datetime(...) accepts the fields (it raises ValueError otherwise).
DatetimeAccepts(c) ==
  /\ c.year >= 1 /\ c.year <= 9999
  /\ c.month >= 1 /\ c.month <= 12
  /\ c.day >= 1 /\ c.day <= DaysInMonth(c.year, c.month)
  /\ c.hour <= 23 /\ c.minute <= 59 /\ c.second <= 59

\* `(dt - epoch).total_seconds()' for the naive datetime the fields of c
\* spell and the naive datetime of 1970-01-01T00:00:00, in ms.
NaiveMillis(c) ==
  (((DaysFromCivil(c.year, c.month, c.day) * 24 + c.hour) * 60 + c.minute) * 60
     + c.second) * 1000 + c.msec

\* cloud_time_to_timestamp: 0 for a string the pattern does not match;
\* datetime() raises for fields that name no date or time; otherwise the
\* difference to datetime.fromtimestamp(0), which is the epoch in the
\* worker's local time (tz is its UTC offset, in ms).
cloud_time_to_timestamp(cloud_time_string, tz) ==
  IF cloud_time_string.shape = "bad" THEN Value(0)
  ELSE IF ~DatetimeAccepts(cloud_time_string) THEN Raised
  ELSE Value(NaiveMillis(cloud_time_string) - tz)

\* A duration string: digits and `s' ("secs", as '5s'), with three decimals
\* ("frac", as '5.000s'), or something float() rejects ("bad").
BadDuration == [shape |-> "bad", whole |-> 0, msec |-> 0]

\* next_progress_report_interval: `float(suggested_interval.rstrip('s'))',
\* in ms; float() raises ValueError for a string that spells no number.
FloatOfDuration(d) ==
  IF d.shape = "bad" THEN Raised
  ELSE Value(Millis(d.whole) + (IF d.shape = "frac" THEN d.msec ELSE 0))

\* next_progress_report_interval:
\* min(max(MIN, min(float(suggested), cloud_time_to_timestamp(lease)
\*                                    - time.time() - LATENCY)), MAX), in ms.
next_progress_report_interval(suggested_interval, lease_renewal_deadline, now, tz) ==
  LET f == FloatOfDuration(suggested_interval)
      t == cloud_time_to_timestamp(lease_renewal_deadline, tz)
  IN IF f.raised \/ t.raised THEN Raised
     ELSE Value(Min2(Max2(Millis(MinInterval),
                          Min2(f.val, t.val - now - Millis(LeaseRenewalLatency))),
                     Millis(MaxInterval)))

\* BatchWorker.MEMORY_USAGE_REPORTING_INTERVAL_SECS
MemoryUsageReportingInterval == 300

\* A log_memory_usage_if_needed that logs again when the interval is reached.
MemoryReportDue_AtInterval(force, last, now) ==
  force \/ last = -1 \/ (now \div 1000) - last >= MemoryUsageReportingInterval

\* log_memory_usage_if_needed: `force or last_memory_usage_report_time is
\* None or int(time.time()) - last_memory_usage_report_time > INTERVAL'
MemoryReportDue(force, last, now) ==
  force \/ last = -1 \/ (now \div 1000) - last > MemoryUsageReportingInterval

\* An error handler of run() that leaves the loop.
AfterLoopError_Returns == "returned"

\* run(): the handler of an exception in the loop logs it and sleeps; the
\* while statement is reached again.
AfterLoopError == "loop_top"

\* run(): `time.sleep(1)' of the error handler, in ms.
ErrorSleep == 1000

\* Values of random.random(), in thousandths: the interval [0, 1).
RandomSamples == {0, 250, 500, 999}

\* A jitter over the whole second.
JitterSleep_Wide(r) == 1000 - r

\* run(): `1.0 * (1 - 0.5 * random.random())' seconds, in ms.
JitterSleep(r) == 1000 - (r \div 2)

\* A reporting thread that keeps the lock after its test of done.
LockAfterDoneCheck_Kept == "reporter"

\* progress_reporting_thread: the with statement around the test of done
\* is left before report_status is called.
LockAfterDoneCheck == None

MainInit ==
  /\ mpc = "setup_compat"
  /\ rpc = None
  /\ shutdown = FALSE
  /\ deferred = None
  /\ session_load = FALSE
  /\ wi = NoItem
  /\ lock = None
  /\ executor = None
  /\ stopped = FALSE
  /\ stop_req = FALSE
  /\ dsr = 0
  /\ exception_details = None
  /\ retries = 0
  /\ calls = << >>
  /\ nsplit = 0
  /\ nloop = 0
  /\ late = 0
  /\ leased = 0
  /\ pend_at_stop = -1
  /\ reporter_built = FALSE
  /\ seed = 0
  /\ slept = FALSE
  /\ nowork = 0
  /\ jitters = 0
  /\ last_sleep = 0

\* The state after construction; the timed view of the cycle is not used.
Init ==
  /\ MainInit
  /\ t_pc = "off"
  /\ t_now = 0
  /\ t_lease = BadCloudTime
  /\ t_sugg = BadDuration
  /\ t_sleep = 0
  /\ t_cycles = 0
  /\ t_waits = 0
  /\ t_tz = 0
  /\ t_stamp = BadCloudTime
  /\ t_last = -1
  /\ t_logged = FALSE
  /\ t_deferred = FALSE
  /\ t_split = FALSE

\* ----------------------------------------------------------------- run
\* run(): environment.check_sdk_compatibility, when environment_info_path is
\* given; a failure is captured in deferred_exception_details.
SetupCompat ==
  /\ mpc = "setup_compat"
  /\ \E ok \in BOOLEAN : deferred' = IF ok THEN None ELSE "compat_err"
  /\ mpc' = "setup_session"
  /\ UNCHANGED <<rpc, shutdown, session_load, wi, lock, executor, stopped,
                 stop_req, dsr, exception_details, retries, calls, nsplit,
                 nloop, late, leased, pend_at_stop, reporter_built, seed,
                 slept, nowork, jitters, last_sleep, tvars>>

\* run(): _load_main_session, only when no deferred exception was captured;
\* then the status server thread is started.
SetupSession ==
  /\ mpc = "setup_session"
  /\ IF deferred = None
       THEN /\ session_load' = TRUE
            /\ \E ok \in BOOLEAN : deferred' = IF ok THEN None ELSE "session_err"
       ELSE UNCHANGED <<session_load, deferred>>
  /\ mpc' = "loop_top"
  /\ UNCHANGED <<rpc, shutdown, wi, lock, executor, stopped, stop_req, dsr,
                 exception_details, retries, calls, nsplit, nloop, late, leased,
                 pend_at_stop, reporter_built, seed,
                 slept, nowork, jitters, last_sleep, tvars>>

\* BatchWorker.shutdown, called from outside the worker loop.
Shutdown ==
  /\ ~shutdown
  /\ shutdown' = TRUE
  /\ UNCHANGED <<mpc, rpc, deferred, session_load, wi, lock, executor,
                 stopped, stop_req, dsr, exception_details, retries, calls,
                 nsplit, nloop, late, leased, pend_at_stop, reporter_built, seed,
                 slept, nowork, jitters, last_sleep, tvars>>

\* run(): `while not self._shutdown'
LoopTop ==
  /\ mpc = "loop_top"
  /\ mpc' = IF shutdown THEN "returned" ELSE "lease"
  /\ UNCHANGED <<rpc, shutdown, deferred, session_load, wi, lock, executor,
                 stopped, stop_req, dsr, exception_details, retries, calls,
                 nsplit, nloop, late, leased, pend_at_stop, reporter_built, seed,
                 slept, nowork, jitters, last_sleep, tvars>>

\* run(): lease_work answers 404, or get_work_items returns None.
LeaseNoWork ==
  /\ mpc = "lease"
  /\ nowork < MaxNoWork
  /\ nowork' = nowork + 1
  /\ mpc' = "sleep_jitter"
  /\ UNCHANGED <<rpc, shutdown, deferred, session_load, wi, lock, executor,
                 stopped, stop_req, dsr, exception_details, retries, calls,
                 nsplit, nloop, late, leased, pend_at_stop, reporter_built, seed,
                 slept, jitters, last_sleep, tvars>>

\* run(): lease_work raises an HttpError other than 404, or parsing raises.
LeaseError ==
  /\ mpc = "lease"
  /\ mpc' = "loop_err"
  /\ nowork' = 0
  /\ jitters' = 0
  /\ UNCHANGED <<rpc, shutdown, deferred, session_load, wi, lock, executor,
                 stopped, stop_req, dsr, exception_details, retries, calls,
                 nsplit, nloop, late, leased, pend_at_stop, reporter_built, seed,
                 slept, last_sleep, tvars>>

\* run(): lease_work returns a work item; do_work is entered.
LeaseWork ==
  /\ mpc = "lease"
  /\ leased < MaxItems
  /\ \E k \in Kinds, i \in InitialReportIndices :
       /\ wi' = [kind |-> k, nri |-> i, done |-> FALSE,
                 lease |-> LeasedTimes.lease, rsi |-> LeasedTimes.rsi]
       /\ seed' = i
  /\ leased' = leased + 1
  /\ mpc' = "do_work"
  /\ rpc' = None
  /\ executor' = None
  /\ stopped' = FALSE
  /\ stop_req' = FALSE
  /\ dsr' = 0
  /\ exception_details' = None
  /\ retries' = 0
  /\ calls' = << >>
  /\ nsplit' = 0
  /\ nloop' = 0
  /\ late' = 0
  /\ pend_at_stop' = -1
  /\ reporter_built' = FALSE
  /\ slept' = FALSE
  /\ nowork' = 0
  /\ jitters' = 0
  /\ last_sleep' = 0
  /\ UNCHANGED <<shutdown, deferred, session_load, lock, tvars>>

\* run(): `time.sleep(1.0 * (1 - 0.5 * random.random())); continue'
SleepJitter ==
  /\ mpc = "sleep_jitter"
  /\ \E r \in RandomSamples : last_sleep' = JitterSleep(r)
  /\ jitters' = jitters + 1
  /\ mpc' = "loop_top"
  /\ UNCHANGED <<rpc, shutdown, deferred, session_load, wi, lock, executor,
                 stopped, stop_req, dsr, exception_details, retries, calls,
                 nsplit, nloop, late, leased, pend_at_stop, reporter_built, seed,
                 slept, nowork, tvars>>

\* run(): `except Exception: logging.error(...); time.sleep(1)'
LoopError ==
  /\ mpc = "loop_err"
  /\ last_sleep' = ErrorSleep
  /\ mpc' = AfterLoopError
  /\ UNCHANGED <<rpc, shutdown, deferred, session_load, wi, lock, executor,
                 stopped, stop_req, dsr, exception_details, retries, calls,
                 nsplit, nloop, late, leased, pend_at_stop, reporter_built, seed,
                 slept, nowork, jitters, tvars>>

\* ------------------------------------------------------------- do_work
\* do_work: get_executor_for_work_item and the ProgressReporter constructor,
\* then the branch on deferred_exception_details.  An unknown kind raises
\* ValueError, which leaves do_work.
GetExecutor ==
  /\ mpc = "do_work"
  /\ IF ExecutorKnown(wi.kind)
       THEN /\ executor' = "built"
            /\ reporter_built' = TRUE
            /\ mpc' = IF DeferredSet(deferred) THEN "c_lock" ELSE "start"
       ELSE /\ mpc' = "loop_err"
            /\ UNCHANGED <<executor, reporter_built>>
  /\ UNCHANGED <<rpc, shutdown, deferred, session_load, wi, lock, stopped,
                 stop_req, dsr, exception_details, retries, calls, nsplit,
                 nloop, late, leased, pend_at_stop, seed,
                 slept, nowork, jitters, last_sleep, tvars>>

\* do_work: progress_reporter.start_reporting_progress().  Thread.start may
\* raise; the exception is caught like one of execute().
StartReporting ==
  /\ mpc = "start"
  /\ \/ /\ rpc' = "check_stop"
        /\ mpc' = "execute"
        /\ UNCHANGED exception_details
     \/ /\ exception_details' = "start_err"
        /\ mpc' = "stop_set"
        /\ UNCHANGED rpc
  /\ UNCHANGED <<shutdown, deferred, session_load, wi, lock, executor,
                 stopped, stop_req, dsr, retries, calls, nsplit, nloop, late,
                 leased, pend_at_stop, reporter_built, seed,
                 slept, nowork, jitters, last_sleep, tvars>>

\* do_work: work_executor.execute() is entered.
ExecuteBegin ==
  /\ mpc = "execute"
  /\ executor = "built"
  /\ executor' = "running"
  /\ UNCHANGED <<mpc, rpc, shutdown, deferred, session_load, wi, lock,
                 stopped, stop_req, dsr, exception_details, retries, calls,
                 nsplit, nloop, late, leased, pend_at_stop, reporter_built, seed,
                 slept, nowork, jitters, last_sleep, tvars>>

\* do_work: execute() returns, or raises and exception_details is set.
ExecuteEnd ==
  /\ mpc = "execute"
  /\ executor = "running"
  /\ \E ok \in BOOLEAN :
       /\ executor' = IF ok THEN "ok" ELSE "raised"
       /\ exception_details' = IF ok THEN exception_details ELSE "exec_err"
  /\ mpc' = "stop_set"
  /\ UNCHANGED <<rpc, shutdown, deferred, session_load, wi, lock, stopped,
                 stop_req, dsr, retries, calls, nsplit, nloop, late, leased,
                 pend_at_stop, reporter_built, seed,
                 slept, nowork, jitters, last_sleep, tvars>>

\* stop_reporting_progress: `self._stop_reporting_progress = True'
StopSet ==
  /\ mpc = "stop_set"
  /\ stop_req' = TRUE
  /\ mpc' = "stop_wait"
  /\ UNCHANGED <<rpc, shutdown, deferred, session_load, wi, lock, executor,
                 stopped, dsr, exception_details, retries, calls, nsplit,
                 nloop, late, leased, pend_at_stop, reporter_built, seed,
                 slept, nowork, jitters, last_sleep, tvars>>

\* stop_reporting_progress: the wait for _stopped, then the test of
\* dynamic_split_result_to_report.
StopWait ==
  /\ mpc = "stop_wait"
  /\ ReporterHasStopped(stopped)
  /\ pend_at_stop' = dsr
  /\ late' = 0
  /\ mpc' = IF FlushNeeded(dsr) THEN "flush_call" ELSE "c_lock"
  /\ UNCHANGED <<rpc, shutdown, deferred, session_load, wi, lock, executor,
                 stopped, stop_req, dsr, exception_details, retries, calls,
                 nsplit, nloop, leased, reporter_built, seed,
                 slept, nowork, jitters, last_sleep, tvars>>

\* stop_reporting_progress: report_status(progress=get_progress()), the call.
FlushCall ==
  /\ mpc = "flush_call"
  /\ calls' = Append(calls, Call(FALSE, wi, CarriedSplit(FALSE, dsr), None, None, "flush"))
  /\ mpc' = "flush_wait"
  /\ UNCHANGED <<rpc, shutdown, deferred, session_load, wi, lock, executor,
                 stopped, stop_req, dsr, exception_details, retries, nsplit,
                 nloop, late, leased, pend_at_stop, reporter_built, seed,
                 slept, nowork, jitters, last_sleep, tvars>>

\* stop_reporting_progress: the flush report returns and its response is
\* processed.
FlushOk ==
  /\ mpc = "flush_wait"
  /\ \E o \in SplitOutcomes :
       /\ o = "accept" => nsplit < MaxSplits
       /\ dsr' = SplitAfterResponse(o, nsplit + 1)
       /\ nsplit' = IF o = "accept" THEN nsplit + 1 ELSE nsplit
       /\ calls' = Returned(calls, "flush", "ok", SplitAfterResponse(o, nsplit + 1))
  /\ wi' = ProcessedTimes(
             [wi EXCEPT !.nri = ProcessedIndex(wi.nri, NextReportIndex(SentIndex("flush")))],
             ResponseTimes(SentIndex("flush")))
  /\ mpc' = "c_lock"
  /\ UNCHANGED <<rpc, shutdown, deferred, session_load, lock, executor,
                 stopped, stop_req, exception_details, retries, nloop, late,
                 leased, pend_at_stop, reporter_built, seed,
                 slept, nowork, jitters, last_sleep, tvars>>

\* stop_reporting_progress raises: the flush report failed.  do_work logs
\* the error and keeps an earlier exception_details.
FlushFail ==
  /\ mpc = "flush_wait"
  /\ calls' = Returned(calls, "flush", "fail", 0)
  /\ dsr' = SplitAfterFailure(dsr)
  /\ exception_details' = AfterStopError(exception_details)
  /\ mpc' = "c_lock"
  /\ UNCHANGED <<rpc, shutdown, deferred, session_load, wi, lock, executor,
                 stopped, stop_req, retries, nsplit, nloop, late, leased,
                 pend_at_stop, reporter_built, seed,
                 slept, nowork, jitters, last_sleep, tvars>>

\* do_work: `with work_item.lock:' of the deferred and the completion path.
CompletionLock ==
  /\ mpc = "c_lock"
  /\ lock = None
  /\ lock' = "main"
  /\ retries' = 0
  /\ mpc' = "c_call"
  /\ UNCHANGED <<rpc, shutdown, deferred, session_load, wi, executor,
                 stopped, stop_req, dsr, exception_details, calls, nsplit,
                 nloop, late, leased, pend_at_stop, reporter_built, seed,
                 slept, nowork, jitters, last_sleep, tvars>>

\* report_completion_status: report_status(completed=True, ...), the call.
CompletionCall ==
  /\ mpc = "c_call"
  /\ calls' = Append(calls,
                Call(TRUE, wi, CarriedSplit(TRUE, dsr),
                     CompletionDetails(deferred, exception_details),
                     SourceResponse(deferred, wi.kind, executor), "main"))
  /\ mpc' = "c_wait"
  /\ UNCHANGED <<rpc, shutdown, deferred, session_load, wi, lock, executor,
                 stopped, stop_req, dsr, exception_details, retries, nsplit,
                 nloop, late, leased, pend_at_stop, reporter_built, seed,
                 slept, nowork, jitters, last_sleep, tvars>>

\* report_status(completed=True) returns: dynamic_split_result_to_report is
\* reset, the response, whatever it holds, is not processed.
CompletionOk ==
  /\ mpc = "c_wait"
  /\ \E o \in SplitOutcomes :
       LET processed == ResponseProcessed(TRUE)
           rp == ResponseTimes(SentIndex("main"))
           fresh == IF processed THEN SplitAfterResponse(o, nsplit + 1) ELSE 0
       IN /\ (processed /\ o = "accept") => nsplit < MaxSplits
          /\ dsr' = fresh
          /\ nsplit' = IF fresh # 0 THEN nsplit + 1 ELSE nsplit
          /\ calls' = Returned(calls, "main", "ok", fresh)
          /\ wi' = IF processed
                     THEN ProcessedTimes(
                            [wi EXCEPT !.nri = ProcessedIndex(wi.nri, NextReportIndex(SentIndex("main")))],
                            rp)
                     ELSE wi
  /\ mpc' = "c_done"
  /\ UNCHANGED <<rpc, shutdown, deferred, session_load, lock, executor,
                 stopped, stop_req, exception_details, retries,
                 nloop, late, leased, pend_at_stop, reporter_built, seed,
                 slept, nowork, jitters, last_sleep, tvars>>

\* report_status(completed=True) raises: the backoff decorator retries, and
\* after the last retry the error leaves do_work (the lock is released).
CompletionFail ==
  /\ mpc = "c_wait"
  /\ calls' = Returned(calls, "main", "fail", 0)
  /\ IF retries < MaxRetries
       THEN /\ retries' = retries + 1
            /\ mpc' = "c_call"
            /\ UNCHANGED lock
       ELSE /\ mpc' = "loop_err"
            /\ lock' = LockAfterFailure(lock)
            /\ UNCHANGED retries
  /\ wi' = IF retries < MaxRetries
             THEN wi
             ELSE [wi EXCEPT !.done = DoneAfterFailure(wi.done)]
  /\ UNCHANGED <<rpc, shutdown, deferred, session_load, executor,
                 stopped, stop_req, dsr, exception_details, nsplit, nloop, late,
                 leased, pend_at_stop, reporter_built, seed,
                 slept, nowork, jitters, last_sleep, tvars>>

\* do_work: `work_item.done = True', the lock is released, do_work returns.
CompletionDone ==
  /\ mpc = "c_done"
  /\ wi' = [wi EXCEPT !.done = TRUE]
  /\ lock' = None
  /\ mpc' = "loop_top"
  /\ UNCHANGED <<rpc, shutdown, deferred, session_load, executor, stopped,
                 stop_req, dsr, exception_details, retries, calls, nsplit,
                 nloop, late, leased, pend_at_stop, reporter_built, seed,
                 slept, nowork, jitters, last_sleep, tvars>>

\* ---------------------------------------------- progress_reporting_thread
\* `while not self._stop_reporting_progress'.  A new cycle is entered only
\* while the bound on progress reports allows one.
ReporterCheckStop ==
  /\ rpc = "check_stop"
  /\ IF LoopContinues(stop_req)
       THEN /\ nloop < MaxReports
            /\ rpc' = "lock"
       ELSE rpc' = "finally"
  /\ UNCHANGED <<mpc, shutdown, deferred, session_load, wi, lock, executor,
                 stopped, stop_req, dsr, exception_details, retries, calls,
                 nsplit, nloop, late, leased, pend_at_stop, reporter_built, seed,
                 slept, nowork, jitters, last_sleep, tvars>>

\* `with self._work_item.lock:' is entered.
ReporterLock ==
  /\ rpc = "lock"
  /\ lock = None
  /\ lock' = "reporter"
  /\ rpc' = "check_done"
  /\ UNCHANGED <<mpc, shutdown, deferred, session_load, wi, executor,
                 stopped, stop_req, dsr, exception_details, retries, calls,
                 nsplit, nloop, late, leased, pend_at_stop, reporter_built, seed,
                 slept, nowork, jitters, last_sleep, tvars>>

\* `if self._work_item.done: break', and the lock is released.
ReporterCheckDone ==
  /\ rpc = "check_done"
  /\ lock' = LockAfterDoneCheck
  /\ rpc' = IF wi.done THEN "finally" ELSE "report"
  /\ UNCHANGED <<mpc, shutdown, deferred, session_load, wi, executor,
                 stopped, stop_req, dsr, exception_details, retries, calls,
                 nsplit, nloop, late, leased, pend_at_stop, reporter_built, seed,
                 slept, nowork, jitters, last_sleep, tvars>>

\* report_status(progress=get_progress()), the call.
ReporterCall ==
  /\ rpc = "report"
  /\ calls' = Append(calls, Call(FALSE, wi, CarriedSplit(FALSE, dsr), None, None, "loop"))
  /\ nloop' = nloop + 1
  /\ late' = IF stop_req THEN late + 1 ELSE late
  /\ slept' = FALSE
  /\ rpc' = "report_wait"
  /\ UNCHANGED <<mpc, shutdown, deferred, session_load, wi, lock, executor,
                 stopped, stop_req, dsr, exception_details, retries, nsplit,
                 leased, pend_at_stop, reporter_built, seed,
                 nowork, jitters, last_sleep, tvars>>

\* The progress report returns and its response is processed; the thread
\* goes on to its sleep.
ReporterOk ==
  /\ rpc = "report_wait"
  /\ \E o \in SplitOutcomes :
       /\ o = "accept" => nsplit < MaxSplits
       /\ dsr' = SplitAfterResponse(o, nsplit + 1)
       /\ nsplit' = IF o = "accept" THEN nsplit + 1 ELSE nsplit
       /\ calls' = Returned(calls, "loop", "ok", SplitAfterResponse(o, nsplit + 1))
  /\ wi' = ProcessedTimes(
             [wi EXCEPT !.nri = ProcessedIndex(wi.nri, NextReportIndex(SentIndex("loop")))],
             ResponseTimes(SentIndex("loop")))
  /\ rpc' = "sleep"
  /\ UNCHANGED <<mpc, shutdown, deferred, session_load, lock, executor,
                 stopped, stop_req, exception_details, retries, nloop, late,
                 leased, pend_at_stop, reporter_built, seed,
                 slept, nowork, jitters, last_sleep, tvars>>

\* The progress report raises: the inner handler logs the error and the
\* while loop tests its condition again, without the sleep.
ReporterFail ==
  /\ rpc = "report_wait"
  /\ calls' = Returned(calls, "loop", "fail", 0)
  /\ dsr' = SplitAfterFailure(dsr)
  /\ rpc' = "check_stop"
  /\ UNCHANGED <<mpc, shutdown, deferred, session_load, wi, lock, executor,
                 stopped, stop_req, exception_details, retries, nsplit,
                 nloop, late, leased, pend_at_stop, reporter_built, seed,
                 slept, nowork, jitters, last_sleep, tvars>>

\* next_progress_report_interval raises (the lease time names an impossible
\* date): the inner handler logs the error and the while loop tests its
\* condition again, without the sleep.
ReporterIntervalError ==
  /\ rpc = "sleep"
  /\ IntervalRaises(wi)
  /\ rpc' = "check_stop"
  /\ UNCHANGED <<mpc, shutdown, deferred, session_load, wi, lock, executor,
                 stopped, stop_req, dsr, exception_details, retries, calls,
                 nsplit, nloop, late, leased, pend_at_stop, reporter_built, seed,
                 slept, nowork, jitters, last_sleep, tvars>>

\* next_progress_report_interval returns and `time.sleep(sleep_time)' ends.
ReporterSleep ==
  /\ rpc = "sleep"
  /\ ~IntervalRaises(wi)
  /\ slept' = TRUE
  /\ rpc' = "check_stop"
  /\ UNCHANGED <<mpc, shutdown, deferred, session_load, wi, lock, executor,
                 stopped, stop_req, dsr, exception_details, retries, calls,
                 nsplit, nloop, late, leased, pend_at_stop, reporter_built, seed,
                 nowork, jitters, last_sleep, tvars>>

\* `finally: self._stopped = True', and the thread ends.
ReporterFinally ==
  /\ rpc = "finally"
  /\ stopped' = TRUE
  /\ rpc' = "ended"
  /\ UNCHANGED <<mpc, shutdown, deferred, session_load, wi, lock, executor,
                 stop_req, dsr, exception_details, retries, calls,
                 nsplit, nloop, late, leased, pend_at_stop, reporter_built, seed,
                 slept, nowork, jitters, last_sleep, tvars>>

Next ==
  \/ SetupCompat
  \/ SetupSession
  \/ Shutdown
  \/ LoopTop
  \/ LeaseNoWork
  \/ LeaseError
  \/ LeaseWork
  \/ SleepJitter
  \/ LoopError
  \/ GetExecutor
  \/ StartReporting
  \/ ExecuteBegin
  \/ ExecuteEnd
  \/ StopSet
  \/ StopWait
  \/ FlushCall
  \/ FlushOk
  \/ FlushFail
  \/ CompletionLock
  \/ CompletionCall
  \/ CompletionOk
  \/ CompletionFail
  \/ CompletionDone
  \/ ReporterCheckStop
  \/ ReporterLock
  \/ ReporterCheckDone
  \/ ReporterCall
  \/ ReporterOk
  \/ ReporterFail
  \/ ReporterIntervalError
  \/ ReporterSleep
  \/ ReporterFinally

Spec == Init /\ [][Next]_vars

\* ------------------------------------- the reporting cycle, with its times
\* The time at which the work item was leased, in ms.
Nows == {Millis(1000) + 250}
\* lease_expire_time minus the current time, in seconds, as the service
\* answers it.
LeaseLefts == {-20, 10, 180, 700}
\* UTC offsets of the worker's local time zone, in ms: UTC, US Pacific and
\* Central European time.
TzOffsets == {0, Millis(-28800), Millis(3600)}
\* Microseconds of utcnow() below the millisecond.
SubMillis == {0, 999}
\* Seconds since the last memory usage log line when the item is leased.
MemoryLogAges == {100, 400}
\* stop_reporting_progress: `time.sleep(1)' of the wait for _stopped, in ms.
PollSleep == 1000
\* Values of random.random() at the jittered sleep of run(), in thousandths,
\* in the timed view.
TimedRandomSamples == {0, 250, 500}
\* Delays of the backoff wrapper of report_completion_status between two
\* attempts, in ms: a delay and its double.
BackoffDelays == {1000, 2000}
\* What is left of the sleep of that wait when the reporting thread sets
\* _stopped, in ms: nothing (_stopped was set at the test), half of it, all
\* of it.
PollRemainders == {0, 500, PollSleep}

\* The cloud time string of the instant ms, as the service writes it with
\* and without milliseconds.
CloudTimeOf(ms) ==
  {formatted_current_time(utcnow(ms, 0)),
   [formatted_current_time(utcnow(ms - (ms % 1000), 0)) EXCEPT !.shape = "sec"]}

\* Strings of the right shape that name no date: month 13, 30 February.
ImpossibleTimes ==
  {[shape |-> "sec", year |-> 1970, month |-> 13, day |-> 1, hour |-> 0,
    minute |-> 0, second |-> 0, msec |-> 0],
   [shape |-> "ms", year |-> 1972, month |-> 2, day |-> 30, hour |-> 12,
    minute |-> 0, second |-> 0, msec |-> 500]}

\* The lease, in seconds, that the service also answers without
\* milliseconds.
WholeSecondLefts == {10}

\* The lease_expire_time strings the service may answer at time now.
LeaseTimes(now) ==
  {BadCloudTime} \cup ImpossibleTimes
    \cup {c \in UNION {CloudTimeOf(now + Millis(l)) : l \in LeaseLefts} :
            c.shape = "ms"}
    \cup {c \in UNION {CloudTimeOf(now + Millis(l)) : l \in WholeSecondLefts} :
            c.shape = "sec"}

\* The report_status_interval strings the service may answer.
SuggestedIntervals ==
  {[shape |-> "secs", whole |-> 3, msec |-> 0],
   [shape |-> "frac", whole |-> 8, msec |-> 500],
   [shape |-> "frac", whole |-> 300, msec |-> 0],
   [shape |-> "secs", whole |-> 900, msec |-> 0],
   BadDuration}

\* run() has made its checks, with or without a deferred error; the work
\* item was leased and do_work is entered.
InitTimed ==
  /\ MainInit
  /\ t_pc = "do_work"
  /\ t_now \in Nows
  /\ t_tz \in TzOffsets
  /\ t_lease \in LeaseTimes(t_now)
  /\ t_sugg \in SuggestedIntervals
  /\ t_sleep = 0
  /\ t_cycles = 0
  /\ t_waits = 0
  /\ t_stamp = BadCloudTime
  /\ t_last \in {-1} \cup {(t_now \div 1000) - a : a \in MemoryLogAges}
  /\ t_logged = FALSE
  /\ t_deferred \in BOOLEAN
  /\ t_split = FALSE

\* do_work: `BatchWorker.log_memory_usage_if_needed(self.worker_id,
\* force=True)'; get_executor_for_work_item is called next.
TimedDoWork ==
  /\ t_pc = "do_work"
  /\ t_logged' = MemoryReportDue(TRUE, t_last, t_now)
  /\ t_last' = IF MemoryReportDue(TRUE, t_last, t_now) THEN t_now \div 1000 ELSE t_last
  /\ t_pc' = "executor"
  /\ UNCHANGED <<t_now, t_lease, t_sugg, t_sleep, t_cycles, t_waits, t_tz, t_stamp,
                 t_deferred, t_split>>

\* do_work: the work item is of no known kind and
\* get_executor_for_work_item raises ValueError, outside the try statement
\* and before the test of the deferred error; the handler of run() sleeps
\* 1 s and run() leases again.
TimedUnknownKind ==
  /\ t_pc = "executor"
  /\ t_cycles + t_waits < MaxCycles
  /\ t_now' = t_now + ErrorSleep
  /\ t_waits' = t_waits + 1
  /\ t_pc' = "lease"
  /\ UNCHANGED <<t_lease, t_sugg, t_sleep, t_cycles, t_tz, t_stamp, t_last,
                 t_logged, t_deferred, t_split>>

\* do_work: the executor and the ProgressReporter are built; a deferred
\* error is set and the completion report is sent at once: no reporting
\* thread is started.
TimedDeferred ==
  /\ t_pc = "executor"
  /\ t_deferred
  /\ t_split' = FALSE
  /\ t_pc' = "completion"
  /\ UNCHANGED <<t_now, t_lease, t_sugg, t_sleep, t_cycles, t_waits, t_tz, t_stamp,
                 t_last, t_logged, t_deferred>>

\* do_work: the executor and the ProgressReporter are built, no deferred
\* error is set; start_reporting_progress starts the thread.
TimedStartReporting ==
  /\ t_pc = "executor"
  /\ ~t_deferred
  /\ t_split' = FALSE
  /\ t_pc' = "top"
  /\ UNCHANGED <<t_now, t_lease, t_sugg, t_sleep, t_cycles, t_waits, t_tz, t_stamp,
                 t_last, t_logged, t_deferred>>

\* do_work: `thread.start()' raises in start_reporting_progress; the
\* exception is caught, execute() is not called, and
\* stop_reporting_progress waits for the _stopped of a thread that never
\* ran.
TimedStartFail ==
  /\ t_pc = "executor"
  /\ ~t_deferred
  /\ t_split' = FALSE
  /\ t_pc' = "poll"
  /\ UNCHANGED <<t_now, t_lease, t_sugg, t_sleep, t_cycles, t_waits, t_tz, t_stamp,
                 t_last, t_logged, t_deferred>>

\* stop_reporting_progress: `while not self._stopped: time.sleep(1)', with
\* no thread to set _stopped.
TimedPoll ==
  /\ t_pc = "poll"
  /\ t_cycles + t_waits < MaxCycles
  /\ t_now' = t_now + PollSleep
  /\ t_waits' = t_waits + 1
  /\ UNCHANGED <<t_pc, t_lease, t_sugg, t_sleep, t_cycles, t_tz, t_stamp, t_last,
                 t_logged, t_deferred, t_split>>

\* progress_reporting_thread, the top of a cycle:
\* `BatchWorker.log_memory_usage_if_needed(..., force=False)'
TimedMemoryLog ==
  /\ t_pc = "top"
  /\ t_logged' = MemoryReportDue(FALSE, t_last, t_now)
  /\ t_last' = IF MemoryReportDue(FALSE, t_last, t_now) THEN t_now \div 1000 ELSE t_last
  /\ t_pc' = "report"
  /\ UNCHANGED <<t_now, t_lease, t_sugg, t_sleep, t_cycles, t_waits, t_tz, t_stamp,
                 t_deferred, t_split>>

\* report_status succeeds: the request carried formatted_current_time and
\* the split result to report, which is reset; lease_expire_time and
\* report_status_interval are taken from the response, and a suggested stop
\* point in it may leave a new split result to report.
TimedReportOk ==
  /\ t_pc = "report"
  /\ t_stamp' \in {formatted_current_time(utcnow(t_now, us)) : us \in SubMillis}
  /\ t_lease' \in LeaseTimes(t_now)
  /\ t_sugg' \in SuggestedIntervals
  /\ t_split' \in BOOLEAN
  /\ t_pc' = "interval"
  /\ UNCHANGED <<t_now, t_sleep, t_cycles, t_waits, t_tz, t_last, t_logged,
                 t_deferred>>

\* report_status raises: the fields keep their values and the loop tests its
\* condition again without sleeping.
TimedReportFail ==
  /\ t_pc = "report"
  /\ t_stamp' \in {formatted_current_time(utcnow(t_now, us)) : us \in SubMillis}
  /\ t_pc' = "top"
  /\ UNCHANGED <<t_now, t_lease, t_sugg, t_sleep, t_cycles, t_waits, t_tz, t_last,
                 t_logged, t_deferred, t_split>>

\* `sleep_time = self.next_progress_report_interval(...)'; when it raises,
\* the handler of the cycle catches the exception.
TimedInterval ==
  /\ t_pc = "interval"
  /\ LET r == next_progress_report_interval(t_sugg, t_lease, t_now, t_tz)
     IN IF r.raised
          THEN t_pc' = "interval_err" /\ UNCHANGED t_sleep
          ELSE t_pc' = "sleep" /\ t_sleep' = r.val
  /\ UNCHANGED <<t_now, t_lease, t_sugg, t_cycles, t_waits, t_tz, t_stamp, t_last,
                 t_logged, t_deferred, t_split>>

\* `except Exception: logging.info(...)': the cycle is over, without a sleep.
TimedIntervalError ==
  /\ t_pc = "interval_err"
  /\ t_pc' = "top"
  /\ UNCHANGED <<t_now, t_lease, t_sugg, t_sleep, t_cycles, t_waits, t_tz, t_stamp,
                 t_last, t_logged, t_deferred, t_split>>

\* `time.sleep(sleep_time)'
TimedSleep ==
  /\ t_pc = "sleep"
  /\ t_cycles + t_waits < MaxCycles
  /\ t_now' = t_now + t_sleep
  /\ t_cycles' = t_cycles + 1
  /\ t_pc' = "top"
  /\ UNCHANGED <<t_lease, t_sugg, t_sleep, t_tz, t_stamp, t_last, t_logged,
                 t_waits, t_deferred, t_split>>

\* The loop of the reporting thread is left, _stopped is set and the thread
\* ends, its sleep_time with it; stop_reporting_progress sees _stopped at
\* its test, or when what is left of its `time.sleep(1)' is over, and goes
\* on to its test of the split result to report.  The sleeps of the two
\* threads are counted together against MaxCycles.
TimedStop ==
  /\ t_pc = "top"
  /\ \E d \in PollRemainders :
       /\ d # 0 => t_cycles + t_waits < MaxCycles
       /\ t_now' = t_now + d
       /\ t_waits' = IF d # 0 THEN t_waits + 1 ELSE t_waits
  /\ t_sleep' = 0
  /\ t_pc' = "flush"
  /\ UNCHANGED <<t_lease, t_sugg, t_cycles, t_tz, t_stamp, t_last,
                 t_logged, t_deferred, t_split>>

\* stop_reporting_progress: `if self.dynamic_split_result_to_report is not
\* None' is false; it returns and do_work goes on to the completion report.
TimedFlushNone ==
  /\ t_pc = "flush"
  /\ ~t_split
  /\ t_pc' = "completion"
  /\ UNCHANGED <<t_now, t_lease, t_sugg, t_sleep, t_cycles, t_waits, t_tz, t_stamp,
                 t_last, t_logged, t_deferred, t_split>>

\* stop_reporting_progress: a split result is left and the progress report
\* that carries it succeeds; it is processed as every progress report.
TimedFlushOk ==
  /\ t_pc = "flush"
  /\ t_split
  /\ t_stamp' \in {formatted_current_time(utcnow(t_now, us)) : us \in SubMillis}
  /\ t_lease' \in LeaseTimes(t_now)
  /\ t_sugg' \in SuggestedIntervals
  /\ t_split' \in BOOLEAN
  /\ t_pc' = "completion"
  /\ UNCHANGED <<t_now, t_sleep, t_cycles, t_waits, t_tz, t_last, t_logged,
                 t_deferred>>

\* stop_reporting_progress: a split result is left and the progress report
\* that carries it raises; do_work catches the exception and goes on to the
\* completion report.
TimedFlushFail ==
  /\ t_pc = "flush"
  /\ t_split
  /\ t_stamp' \in {formatted_current_time(utcnow(t_now, us)) : us \in SubMillis}
  /\ t_pc' = "completion"
  /\ UNCHANGED <<t_now, t_lease, t_sugg, t_sleep, t_cycles, t_waits, t_tz, t_last,
                 t_logged, t_deferred, t_split>>

\* do_work: the completion report is acknowledged, report_status resets the
\* split result to report; do_work returns and run() is at its while
\* statement.
TimedCompletionOk ==
  /\ t_pc = "completion"
  /\ t_stamp' \in {formatted_current_time(utcnow(t_now, us)) : us \in SubMillis}
  /\ t_split' = FALSE
  /\ t_pc' = "lease"
  /\ UNCHANGED <<t_now, t_lease, t_sugg, t_sleep, t_cycles, t_waits, t_tz,
                 t_last, t_logged, t_deferred>>

\* do_work: the completion report fails and the backoff wrapper of
\* report_completion_status sleeps before it calls again.
TimedCompletionRetry ==
  /\ t_pc = "completion"
  /\ t_cycles + t_waits < MaxCycles
  /\ t_stamp' \in {formatted_current_time(utcnow(t_now, us)) : us \in SubMillis}
  /\ \E d \in BackoffDelays : t_now' = t_now + d
  /\ t_waits' = t_waits + 1
  /\ UNCHANGED <<t_pc, t_lease, t_sugg, t_sleep, t_cycles, t_tz, t_last, t_logged,
                 t_deferred, t_split>>

\* do_work: the completion report fails for good; the exception leaves
\* do_work, and its ProgressReporter with it, and the handler of run()
\* sleeps 1 s.
TimedCompletionFail ==
  /\ t_pc = "completion"
  /\ t_cycles + t_waits < MaxCycles
  /\ t_stamp' \in {formatted_current_time(utcnow(t_now, us)) : us \in SubMillis}
  /\ t_now' = t_now + ErrorSleep
  /\ t_waits' = t_waits + 1
  /\ t_split' = FALSE
  /\ t_pc' = "lease"
  /\ UNCHANGED <<t_lease, t_sugg, t_sleep, t_cycles, t_tz, t_last, t_logged,
                 t_deferred>>

\* run(): the lease finds no work; the jittered sleep.
TimedLeaseNoWork ==
  /\ t_pc = "lease"
  /\ t_cycles + t_waits < MaxCycles
  /\ \E r \in TimedRandomSamples : t_now' = t_now + JitterSleep(r)
  /\ t_waits' = t_waits + 1
  /\ UNCHANGED <<t_pc, t_lease, t_sugg, t_sleep, t_cycles, t_tz, t_stamp,
                 t_last, t_logged, t_deferred, t_split>>

\* run(): lease_work raises; the handler of run() sleeps 1 s.
TimedLeaseError ==
  /\ t_pc = "lease"
  /\ t_cycles + t_waits < MaxCycles
  /\ t_now' = t_now + ErrorSleep
  /\ t_waits' = t_waits + 1
  /\ UNCHANGED <<t_pc, t_lease, t_sugg, t_sleep, t_cycles, t_tz, t_stamp,
                 t_last, t_logged, t_deferred, t_split>>

\* run(): the next work item is leased and do_work is entered.
TimedLeaseWork ==
  /\ t_pc = "lease"
  /\ t_lease' \in LeaseTimes(t_now)
  /\ t_sugg' \in SuggestedIntervals
  /\ t_pc' = "do_work"
  /\ UNCHANGED <<t_now, t_sleep, t_cycles, t_waits, t_tz, t_stamp, t_last,
                 t_logged, t_deferred, t_split>>

mainvars == <<mpc, rpc, shutdown, deferred, session_load, wi, lock, executor,
              stopped, stop_req, dsr, exception_details, retries, calls,
              nsplit, nloop, late, leased, pend_at_stop, reporter_built, seed,
              slept, nowork, jitters, last_sleep>>

NextTimed ==
  \/ TimedDoWork /\ UNCHANGED mainvars
  \/ TimedUnknownKind /\ UNCHANGED mainvars
  \/ TimedDeferred /\ UNCHANGED mainvars
  \/ TimedStartReporting /\ UNCHANGED mainvars
  \/ TimedStartFail /\ UNCHANGED mainvars
  \/ TimedPoll /\ UNCHANGED mainvars
  \/ TimedMemoryLog /\ UNCHANGED mainvars
  \/ TimedReportOk /\ UNCHANGED mainvars
  \/ TimedReportFail /\ UNCHANGED mainvars
  \/ TimedInterval /\ UNCHANGED mainvars
  \/ TimedIntervalError /\ UNCHANGED mainvars
  \/ TimedSleep /\ UNCHANGED mainvars
  \/ TimedStop /\ UNCHANGED mainvars
  \/ TimedFlushNone /\ UNCHANGED mainvars
  \/ TimedFlushOk /\ UNCHANGED mainvars
  \/ TimedFlushFail /\ UNCHANGED mainvars
  \/ TimedCompletionOk /\ UNCHANGED mainvars
  \/ TimedCompletionRetry /\ UNCHANGED mainvars
  \/ TimedCompletionFail /\ UNCHANGED mainvars
  \/ TimedLeaseNoWork /\ UNCHANGED mainvars
  \/ TimedLeaseError /\ UNCHANGED mainvars
  \/ TimedLeaseWork /\ UNCHANGED mainvars

SpecTimed == InitTimed /\ [][NextTimed]_vars

\* ------------------------------------------------------------- fairness
\* The steps of the main worker thread and of the reporting thread.
MainThread ==
  \/ SetupCompat \/ SetupSession \/ LoopTop \/ LeaseNoWork \/ LeaseError
  \/ LeaseWork \/ SleepJitter \/ LoopError \/ GetExecutor \/ StartReporting
  \/ ExecuteBegin \/ ExecuteEnd \/ StopSet \/ StopWait \/ FlushCall \/ FlushOk
  \/ FlushFail \/ CompletionLock \/ CompletionCall \/ CompletionOk
  \/ CompletionFail \/ CompletionDone

ReporterThread ==
  \/ ReporterCheckStop \/ ReporterLock \/ ReporterCheckDone \/ ReporterCall
  \/ ReporterOk \/ ReporterFail \/ ReporterIntervalError \/ ReporterSleep
  \/ ReporterFinally

\* Both threads are scheduled as long as they can take a step, and every
\* call and sleep they make ends.
FairSpec == Spec /\ WF_vars(MainThread) /\ WF_vars(ReporterThread)

\* ====================================================== claims C1 .. C10
Idx == DOMAIN calls
Completion(i) == calls[i].completed
Progress(i) == ~calls[i].completed
Pending(i) == calls[i].res = "pending"
Succeeded(i) == calls[i].res = "ok"
Failed(i) == calls[i].res = "fail"

\* do_work is over for the leased work item: it returned or raised.
DoWorkEnded ==
  /\ leased >= 1
  /\ mpc \in {"loop_top", "lease", "sleep_jitter", "loop_err", "returned"}

\* The main thread is before the end of stop_reporting_progress.
BeforeStopEnd ==
  mpc \in {"do_work", "start", "execute", "stop_set", "stop_wait",
           "flush_call", "flush_wait"}

\* C1: for a work item that do_work processes (no deferred exception), a
\* completion report is called only when the reporting thread has set
\* _stopped and ended and stop_reporting_progress, its flush report
\* included, is over; and never, on any path, is a progress report in
\* flight together with a completion report.
C1_CompletionAfterReporterStopped ==
  /\ \A i \in Idx :
       (Completion(i) /\ deferred = None) =>
         /\ stopped
         /\ rpc = "ended"
         /\ ~BeforeStopEnd
         /\ pend_at_stop # -1
         /\ \A j \in Idx : Progress(j) => (~Pending(j) /\ j < i)
  /\ ~(\E i, j \in Idx :
         Completion(i) /\ Pending(i) /\ Progress(j) /\ Pending(j))

\* C1 witness: a completion report is in flight for a processed work item
\* after progress reports of the thread and a flush report.
C1_Witness ==
  /\ deferred = None
  /\ \E i \in Idx : Completion(i) /\ Pending(i)
  /\ \E j \in Idx : calls[j].by = "loop"
  /\ \E j \in Idx : calls[j].by = "flush"

\* C2: once a completion report was called for a work item, whatever its
\* outcome, no progress report is called for it any more.
C2_NoProgressAfterCompletion ==
  /\ \A i, j \in Idx : (Completion(i) /\ i < j) => Completion(j)
  /\ (\E i \in Idx : Completion(i)) =>
        rpc \in {None, "ended"} /\ mpc \notin {"flush_call", "flush_wait"}

\* C2 witness: the completion report failed on every retry after progress
\* reports had been sent, and the error has left do_work.
C2_Witness ==
  /\ mpc = "loop_err"
  /\ \E i \in Idx : Progress(i)
  /\ Len(calls) > 0
  /\ Completion(Len(calls))
  /\ Failed(Len(calls))
  /\ retries = MaxRetries

\* C3 as claimed: the report indices of the successive calls, failed and
\* retried calls counted, are strictly increasing from the seeded value.
C3_Original_StrictlyIncreasing ==
  /\ calls # << >> => calls[1].idx = seed
  /\ \A i, j \in Idx : i < j => calls[i].idx < calls[j].idx

\* C3 amended: the report indices start at the seeded value and never
\* decrease; the call after a successful progress report carries a greater
\* index; the call after a failed call, and a retry of the completion
\* report, carries the same index again.
C3_IndicesAdvanceOnSuccess ==
  /\ calls # << >> => calls[1].idx = seed
  /\ \A i \in Idx : (i + 1) \in Idx =>
       IF Progress(i) /\ Succeeded(i)
         THEN calls[i + 1].idx > calls[i].idx
         ELSE calls[i + 1].idx = calls[i].idx
  /\ \A i \in Idx : ~Pending(i) =>
       wi.nri >= calls[i].idx /\ ((Progress(i) /\ Succeeded(i)) => wi.nri > calls[i].idx)

\* C3 witness: a failed progress report, a later successful one and a
\* completion report have been called.
C3_Witness ==
  \E i, j, k \in Idx :
    /\ i < j /\ j < k
    /\ Progress(i) /\ Failed(i)
    /\ Progress(j) /\ Succeeded(j)
    /\ Completion(k)

\* C4: a completion report without exception_details is never called while
\* a split result the executor has produced was not carried by a successful
\* progress report.
C4_SplitDeliveredBeforeCleanCompletion ==
  \A i \in Idx :
    (Completion(i) /\ calls[i].exc = None) =>
      \A k \in Idx :
        (k < i /\ calls[k].got # 0) =>
          \E j \in Idx :
            j < i /\ Progress(j) /\ Succeeded(j) /\ calls[j].dsr = calls[k].got

\* C5 as claimed: a produced split result is carried by exactly one
\* successful call by the time the completion report is called.
C5_Original_ExactlyOneSuccessfulCarrier ==
  (\E i \in Idx : Completion(i)) =>
    \A k \in Idx :
      calls[k].got # 0 =>
        Cardinality({j \in Idx : calls[j].dsr = calls[k].got /\ Succeeded(j)}) = 1

\* C5 amended: the split result produced by the response to report k is not
\* carried by report k; the next progress report, if one is called, carries
\* it; later progress reports carry it only while all reports carrying it
\* before have failed; at most one successful report carries it; no
\* completion report carries one; and after a successful report whose
\* response produced no split result the next report carries none.
C5_SplitCarriedByNextProgressReport ==
  /\ \A k \in Idx :
       calls[k].got # 0 =>
         /\ calls[k].dsr # calls[k].got
         /\ ((k + 1) \in Idx /\ Progress(k + 1)) => calls[k + 1].dsr = calls[k].got
         /\ \A j \in Idx :
              calls[j].dsr = calls[k].got =>
                /\ j > k
                /\ Progress(j)
                /\ \A m \in (k + 1) .. (j - 1) :
                     Progress(m) /\ Failed(m) /\ calls[m].dsr = calls[k].got
         /\ Cardinality({j \in Idx : calls[j].dsr = calls[k].got /\ Succeeded(j)}) <= 1
  /\ \A j \in Idx :
       calls[j].dsr # 0 => \E k \in Idx : k < j /\ calls[k].got = calls[j].dsr
  /\ \A k \in Idx :
       (Progress(k) /\ Succeeded(k) /\ calls[k].got = 0 /\ (k + 1) \in Idx) =>
          calls[k + 1].dsr = 0
  /\ \A k \in Idx :
       (Progress(k) /\ Failed(k) /\ (k + 1) \in Idx /\ Progress(k + 1)) =>
          calls[k + 1].dsr = calls[k].dsr

\* C5 witness: a split result was produced by one progress report, carried
\* by a next one that failed and carried again by one that succeeded.
C5_Witness ==
  \E k \in Idx :
    /\ calls[k].got # 0
    /\ (k + 2) \in Idx
    /\ calls[k + 1].dsr = calls[k].got /\ Failed(k + 1)
    /\ calls[k + 2].dsr = calls[k].got /\ Succeeded(k + 2)

FlushCalls == {i \in Idx : calls[i].by = "flush"}

\* C6: stop_reporting_progress calls a report only after the reporting
\* thread has stopped: exactly one progress report, carrying the pending
\* split result, when one is pending, and none when none is pending; that
\* report comes before every completion report.
C6_OneFlushReportWhenPending ==
  /\ pend_at_stop \in {-1, 0} => FlushCalls = {}
  /\ (pend_at_stop > 0 /\ mpc # "flush_call") => Cardinality(FlushCalls) = 1
  /\ \A i \in FlushCalls :
       /\ stopped /\ rpc = "ended"
       /\ Progress(i)
       /\ pend_at_stop > 0
       /\ calls[i].dsr = pend_at_stop
       /\ \A j \in Idx : calls[j].by = "loop" => (j < i /\ ~Pending(j))
       /\ \A j \in Idx : Completion(j) => i < j
  /\ (deferred = None /\ \E j \in Idx : Completion(j)) => pend_at_stop # -1

\* C6 witness: the completion report has been called after the one flush
\* report that carried the pending split result.
C6_Witness ==
  /\ pend_at_stop > 0
  /\ Cardinality(FlushCalls) = 1
  /\ \E j \in Idx : Completion(j)

\* C7: when the flush report of stop_reporting_progress failed, do_work
\* goes on to the completion report, and every completion report carries
\* exception_details: the error of execute() when it had raised, the error
\* of the shutdown otherwise.
C7_StopErrorReported ==
  (\E f \in FlushCalls : Failed(f)) =>
    /\ mpc \in {"c_lock", "c_call"} \/ \E i \in Idx : Completion(i)
    /\ exception_details = (IF executor = "raised" THEN "exec_err" ELSE "stop_err")
    /\ \A i \in Idx :
         Completion(i) =>
           /\ calls[i].exc # None
           /\ calls[i].exc = (IF executor = "raised" THEN "exec_err" ELSE "stop_err")

\* C7 witness: execute() raised, the flush report failed, and the
\* completion report carrying the execution error has been called.
C7_Witness ==
  /\ executor = "raised"
  /\ \E f \in FlushCalls : Failed(f)
  /\ \E i \in Idx : Completion(i) /\ calls[i].exc = "exec_err"

\* C8: when the SDK compatibility check or the main session load failed,
\* the leased work item, of any kind, is not executed, no reporting thread
\* is started and no progress report is sent for it, do_work ends with a
\* completion report called, every completion report carries the deferred
\* error, and the main session load is skipped after a failed check.
C8_DeferredErrorReportedOnNextItem ==
  /\ deferred = "compat_err" => ~session_load
  /\ (deferred # None /\ leased >= 1) =>
       /\ executor \in {None, "built"}
       /\ rpc = None
       /\ \A i \in Idx : Completion(i) /\ calls[i].exc = deferred
       /\ DoWorkEnded => \E i \in Idx : Completion(i)

\* C9 as claimed: with a deferred error set no executor is instantiated for
\* the leased work item.
C9_Original_NoExecutorWhenDeferred ==
  deferred # None => executor = None

\* C9 amended: with a deferred error set the executor of the leased work
\* item is constructed, before the completion report that carries the
\* deferred error is called, but its execute() is never called.
C9_ExecutorBuiltNotExecuted ==
  deferred # None =>
    /\ executor \in {None, "built"}
    /\ mpc \notin {"start", "execute", "stop_set", "stop_wait", "flush_call", "flush_wait"}
    /\ (\E i \in Idx : Completion(i)) => executor = "built"

\* C9 witness: the completion report of the deferred error has been
\* acknowledged and the executor exists, not executed.
C9_Witness ==
  /\ deferred # None
  /\ executor = "built"
  /\ \E i \in Idx : Completion(i) /\ Succeeded(i) /\ calls[i].exc = deferred

\* C10: when do_work is over for a work item of unknown kind, a completion
\* report carrying exception_details has been called for it and the item
\* is marked done unless that report failed on every retry.
C10_UnknownKindReported ==
  (DoWorkEnded /\ wi.kind = "unknown") =>
     /\ \E i \in Idx : Completion(i) /\ calls[i].exc # None
     /\ (\E i \in Idx : Completion(i) /\ Succeeded(i)) => wi.done

\* ===================================================== claims C11 .. C20
CompletionCalls == {i \in Idx : Completion(i)}
Acknowledged == {i \in Idx : Completion(i) /\ Succeeded(i)}

\* C11 as claimed: for a work item whose execute() returned or raised,
\* do_work ends with exactly one acknowledged completion report, whose
\* exception_details is set iff execute() or stop_reporting_progress raised.
C11_Original_ExactlyOneAcknowledged ==
  (DoWorkEnded /\ executor \in {"ok", "raised"}) =>
    /\ Cardinality(Acknowledged) = 1
    /\ \A i \in CompletionCalls :
         (calls[i].exc # None) <=>
           (executor = "raised" \/ \E f \in FlushCalls : Failed(f))

\* C11 amended: for a work item whose execute() returned or raised, do_work
\* does not end before a completion report was called; at most one
\* completion report is acknowledged, exactly one when do_work returns (the
\* item is then done) and none when the report failed on every retry and the
\* error has left do_work; exception_details of every completion report is
\* set iff execute() or stop_reporting_progress raised.
C11_CompletionPathRuns ==
  executor \in {"ok", "raised"} =>
    /\ DoWorkEnded => CompletionCalls # {}
    /\ Cardinality(Acknowledged) <= 1
    /\ DoWorkEnded =>
         IF wi.done
           THEN Cardinality(Acknowledged) = 1
           ELSE /\ Acknowledged = {}
                /\ Cardinality(CompletionCalls) = MaxRetries + 1
                /\ \A i \in CompletionCalls : Failed(i)
    /\ \A i \in CompletionCalls :
         (calls[i].exc # None) <=>
           (executor = "raised" \/ \E f \in FlushCalls : Failed(f))

\* C11 witness: execute() raised and do_work has returned after the
\* acknowledged completion report that carries the error.
C11_Witness ==
  /\ DoWorkEnded
  /\ executor = "raised"
  /\ wi.done
  /\ \E i \in Acknowledged : calls[i].exc = "exec_err"

\* The lease_expire_time of the timed view names a UTC instant.
LeaseReadable == t_lease.shape # "bad" /\ DatetimeAccepts(t_lease)

\* That instant, in ms since the UTC epoch.
LeaseExpiry ==
  (((DaysFromCivil(t_lease.year, t_lease.month, t_lease.day) * 24 + t_lease.hour) * 60
      + t_lease.minute) * 60 + t_lease.second) * 1000 + t_lease.msec

\* The report_status_interval of the timed view, in ms.
SuggestedMillis ==
  t_sugg.whole * 1000 + (IF t_sugg.shape = "frac" THEN t_sugg.msec ELSE 0)

\* C12: the first report is sent without a sleep before it, and the report
\* that follows a sleep of the reporting thread is sent no later than
\* lease_expire_time minus the 5 s safety margin.
C12_ReportBeforeLeaseDeadline ==
  /\ (t_pc \in {"do_work", "executor", "top", "report"} /\ t_cycles = 0 /\ t_waits = 0) =>
       t_now \in Nows
  /\ (t_pc = "report" /\ t_cycles > 0 /\ LeaseReadable) =>
       t_now <= LeaseExpiry - 5000

\* C13: for a suggested interval and a lease expiry time, the interval
\* computed is clamp(min(suggested, leaseExpire - now - 5), 5, 600) seconds:
\* it lies in [5, 600], and is at most the deadline when the deadline lies in
\* [5, 600].
C13_IntervalIsClampedMinimum ==
  (t_pc = "sleep" /\ LeaseReadable) =>
    LET d == LeaseExpiry - t_now - 5000
        v == IF SuggestedMillis < d THEN SuggestedMillis ELSE d
        c == IF v < 5000 THEN 5000 ELSE IF v > 600000 THEN 600000 ELSE v
    IN /\ 5000 <= t_sleep
       /\ t_sleep <= 600000
       /\ t_sleep = c
       /\ (5000 <= d /\ d <= 600000) => t_sleep <= d

\* C14: for every suggested interval and lease expiry time the sleep ends no
\* later than lease_expire_time minus 5 s and lies in [minInterval,
\* maxInterval].
C14_SleepEndsBeforeDeadline ==
  (t_pc = "sleep" /\ LeaseReadable) =>
    /\ t_now + t_sleep <= LeaseExpiry - 5000
    /\ 5000 <= t_sleep /\ t_sleep <= 600000

\* C15: two successive progress reports of the reporting thread are
\* separated by a sleep: when the thread is about to call a report after an
\* earlier one, it has slept since that one.
C15_ProgressReportsSeparatedBySleep ==
  (rpc = "report" /\ nloop >= 1) => slept

\* C16: a lease attempt that finds no work calls neither do_work nor
\* report_status and is followed by one sleep of 0.5 s to 1.0 s before the
\* next attempt; n such attempts in a row make n such sleeps.
C16_NoWorkSleepsJittered ==
  /\ [](/\ jitters = (IF mpc = "sleep_jitter" THEN nowork - 1 ELSE nowork)
        /\ mpc = "sleep_jitter" => nowork >= 1
        /\ jitters >= 1 => (500 <= last_sleep /\ last_sleep <= 1000))
  /\ [][(mpc = "lease" /\ mpc' = "sleep_jitter") =>
          (calls' = calls /\ leased' = leased /\ wi' = wi /\ nowork' = nowork + 1)]_vars
  /\ [][mpc = "sleep_jitter" =>
          /\ mpc' \in {"sleep_jitter", "loop_top"}
          /\ calls' = calls /\ leased' = leased
          /\ mpc' = "loop_top" => jitters' = jitters + 1]_vars

\* C16 witness: three lease attempts in a row found no work and three
\* jittered sleeps were made, without any report.
C16_Witness ==
  /\ mpc = "loop_top"
  /\ nowork = 3
  /\ jitters = 3
  /\ last_sleep < 1000
  /\ calls = << >>

\* C17: run() returns only at its while statement and only after shutdown();
\* the handler of an error in the loop sleeps 1 s and goes back to the while
\* statement.
C17_LoopSurvivesErrors ==
  /\ [](mpc = "returned" => shutdown)
  /\ [][mpc = "loop_err" =>
          /\ mpc' \in {"loop_err", "loop_top"}
          /\ mpc' = "loop_top" => last_sleep' = 1000]_vars
  /\ [][(mpc' = "returned" /\ mpc # "returned") => (mpc = "loop_top" /\ shutdown)]_vars

\* C17 witness: an error has left do_work, the handler has slept 1 s and the
\* loop leases again.
C17_Witness ==
  /\ mpc = "lease"
  /\ leased >= 1
  /\ wi.kind # "unknown"
  /\ ~wi.done
  /\ last_sleep = 1000
  /\ ~shutdown

\* C18: once shutdown() was called, the while statement of run() starts no
\* further lease attempt, and run() eventually returns.
C18_ShutdownLeadsToReturn ==
  /\ [][(shutdown /\ mpc = "loop_top") => mpc' \in {"loop_top", "returned"}]_vars
  /\ shutdown ~> (mpc = "returned")

\* C19: a report called with completed=True carries neither a progress nor a
\* dynamic split result.
C19_CompletionCarriesNoProgressNoSplit ==
  \A i \in Idx : Completion(i) => (calls[i].prog = None /\ calls[i].dsr = 0)

\* C19 witness: the completion report is in flight while a split result is
\* pending in the reporter.
C19_Witness ==
  /\ dsr # 0
  /\ \E i \in Idx : Completion(i) /\ Pending(i)

\* C20 as claimed: no thread holds the work item lock while it has a report
\* in flight or while it runs execute().
C20_Original_LockFreeDuringCalls ==
  /\ (\E i \in Idx : Pending(i) /\ calls[i].by = "loop") => lock # "reporter"
  /\ (\E i \in Idx : Pending(i) /\ calls[i].by \in {"flush", "main"}) => lock # "main"
  /\ executor = "running" => lock # "main"

\* C20 amended: the lock is free while a progress report or the flush report
\* is in flight, and the main thread does not hold it while execute() runs;
\* the reporting thread holds it only for its test of done; the main thread
\* holds it from before the completion report, through its retries, until
\* done is set.
C20_LockHeldOnlyAcrossCompletion ==
  /\ (\E i \in Idx : Progress(i) /\ Pending(i)) => lock = None
  /\ executor = "running" => lock # "main"
  /\ lock = "reporter" <=> rpc = "check_done"
  /\ lock = "main" <=> mpc \in {"c_call", "c_wait", "c_done"}
  /\ (\E i \in Idx : Completion(i) /\ Pending(i)) => lock = "main"

\* C20 witness: a retry of the completion report is in flight and the main
\* thread holds the lock.
C20_Witness ==
  /\ lock = "main"
  /\ retries >= 1
  /\ \E i \in Idx : Completion(i) /\ Pending(i)

\* ===================================================== claims C21 .. C30
\* C21: every write to next_report_index, lease_expire_time,
\* report_status_interval and done of the leased work item is made by a
\* thread that holds the work item lock: the reporting thread when it
\* processes a progress response, the main thread in the shutdown flush and
\* when it sets done.
C21_FieldsWrittenUnderLock ==
  [][(leased' = leased /\ wi' # wi) =>
        IF rpc' # rpc THEN lock = "reporter" ELSE lock = "main"]_vars

\* C22: at most one executor and one reporting thread exist for a work item
\* and at most one reporting thread is alive in the process: a thread is
\* started only once, after the executor was built, it is not started again
\* once it has run, and whenever do_work is over (returned or raised) the
\* thread it started has set _stopped and ended.
C22_OneExecutorOneReporter ==
  /\ [](DoWorkEnded => (rpc \in {None, "ended"} /\ (rpc = "ended" => stopped)))
  /\ [](rpc \notin {None, "ended"} =>
          (executor # None /\ reporter_built
             /\ mpc \in {"execute", "stop_set", "stop_wait"}))
  /\ [][(rpc = None /\ rpc' # None) =>
          (mpc = "start" /\ executor = "built" /\ ~stopped)]_vars
  /\ [][(rpc # None /\ leased' = leased) => rpc' # None]_vars
  /\ [][(executor # None /\ leased' = leased) => executor' # None]_vars
  /\ [][(executor = None /\ executor' # None) =>
          (mpc = "do_work" /\ executor' = "built" /\ rpc = None)]_vars

\* C22 witness: the error of a completion report that failed on every retry
\* has left do_work, and the reporting thread that was started has stopped.
C22_Witness ==
  /\ mpc = "loop_err"
  /\ rpc = "ended"
  /\ stopped
  /\ \E i \in Idx : calls[i].by = "loop"

\* C23: for a lease time string that is no valid timestamp, impossible dates
\* and times included, cloud_time_to_timestamp returns 0 without raising:
\* the interval is computed, it is minInterval, and the cycle goes on to its
\* sleep.
C23_InvalidLeaseTimeGivesMinInterval ==
  (t_pc \in {"sleep", "interval_err"} /\ ~LeaseReadable /\ t_sugg.shape # "bad") =>
     (t_pc = "sleep" /\ t_sleep = 5000)

\* C24: the formatted_current_time sent with a report, parsed by
\* cloud_time_to_timestamp, is the instant of the report in ms since the UTC
\* epoch; a duration string parses to its number of seconds, and an invalid
\* one yields 0 and no error, so that the interval is computed.
C24_TimeFormatsRoundTrip ==
  /\ t_pc = "interval" =>
       cloud_time_to_timestamp(t_stamp, t_tz) = Value(t_now)
  /\ (t_pc \in {"sleep", "interval_err"} /\ t_lease.shape = "bad") =>
       /\ t_pc = "sleep"
       /\ t_sleep = 5000
  /\ t_sugg.shape # "bad" => FloatOfDuration(t_sugg) = Value(SuggestedMillis)

\* C25: a call of log_memory_usage_if_needed without force (the top of a
\* reporting cycle) logs exactly when nothing was logged before or the last
\* line, forced or not, is more than 300 s old; the forced call at the start
\* of do_work always logs; every line logged, and nothing else, sets the
\* shared timestamp to the current time; every cycle of the reporting thread
\* starts with the call, and every do_work calls it with force before it
\* gets its executor.
C25_MemoryLogRateLimited ==
  /\ [][(t_pc = "top" /\ t_pc' = "report") =>
          /\ t_logged' <=> (t_last = -1 \/ (t_now \div 1000) - t_last > 300)
          /\ t_last' = (IF t_logged' THEN t_now \div 1000 ELSE t_last)]_vars
  /\ [][(t_pc = "do_work" /\ t_pc' # "do_work") =>
          (t_logged' /\ t_last' = t_now \div 1000)]_vars
  /\ [][t_last' # t_last =>
          (t_logged' /\ t_pc \in {"do_work", "top"} /\ t_last' = t_now \div 1000)]_vars
  /\ [][(t_pc' = "report" /\ t_pc # "report") => t_pc = "top"]_vars
  /\ [][(t_pc' = "executor" /\ t_pc # "executor") => t_pc = "do_work"]_vars
  /\ [](t_last <= t_now \div 1000)

\* C25 witness: after a sleep of exactly 300 s the call at the top of the
\* cycle has logged nothing, and after a second sleep it has logged a line.
C25_Witness ==
  /\ t_pc = "report"
  /\ t_cycles = 2
  /\ t_sleep = 300000
  /\ t_logged
  /\ t_last = t_now \div 1000

\* The successful progress reports (flush report included) of the work item.
AckedProgress == {i \in Idx : Progress(i) /\ Succeeded(i)}

\* C26: the work item's next_report_index, lease_expire_time and
\* report_status_interval are the values of the response to the last
\* successful progress report, and those of the lease when there is none: a
\* completion report, successful or not, changes none of them; no
\* completion report calls request_dynamic_split.
C26_OnlyProgressResponsesUpdateFields ==
  /\ (leased >= 1 /\ AckedProgress = {}) =>
       /\ wi.nri = seed
       /\ wi.lease = "lease0"
       /\ wi.rsi = "rsi0"
  /\ \A i \in AckedProgress :
       (\A j \in AckedProgress : j <= i) =>
          /\ wi.nri = calls[i].idx + 1
          /\ wi.lease = ResponseTimes(calls[i].idx).lease
          /\ wi.rsi = ResponseTimes(calls[i].idx).rsi
  /\ \A i \in Idx : Completion(i) => calls[i].got = 0
  /\ nsplit = Cardinality({i \in Idx : calls[i].got # 0})

\* C26 witness: a completion report was acknowledged after a successful
\* progress report, and the work item holds the times of the progress
\* response.
C26_Witness ==
  \E i, j \in Idx :
    /\ i < j
    /\ Progress(i) /\ Succeeded(i)
    /\ Completion(j) /\ Succeeded(j)
    /\ wi.lease = ResponseTimes(calls[i].idx).lease
    /\ wi.lease # ResponseTimes(calls[j].idx).lease

\* C27: when a progress report of the reporting thread fails, the pending
\* split result and the fields of the work item keep their values, the
\* thread goes back to the test of its loop and does not stop, and the next
\* progress report carries the same split result and the same index.
C27_FailedProgressReportChangesNothing ==
  /\ [][(rpc = "report_wait" /\ rpc' # "report_wait"
           /\ calls'[Len(calls)].res = "fail") =>
          /\ dsr' = dsr
          /\ wi' = wi
          /\ rpc' = "check_stop"
          /\ stopped' = stopped /\ ~stopped]_vars
  /\ [](\A k \in Idx :
          (calls[k].by = "loop" /\ Failed(k) /\ (k + 1) \in Idx /\ Progress(k + 1)) =>
             /\ calls[k + 1].dsr = calls[k].dsr
             /\ calls[k + 1].idx = calls[k].idx)

\* C27 witness: a progress report of the thread that carried a split result
\* failed and the next progress report was called; it carries the same
\* result again.
C27_Witness ==
  \E k \in Idx :
    /\ calls[k].by = "loop" /\ Failed(k) /\ calls[k].dsr # 0
    /\ (k + 1) \in Idx
    /\ Progress(k + 1)
    /\ calls[k + 1].dsr = calls[k].dsr

\* C28: done is false from the lease until a completion report was
\* acknowledged, it is set right after the acknowledgement, it never goes
\* back to false, and it is false when the completion report has failed on
\* every retry.
C28_DoneOnlyAfterAcknowledgement ==
  /\ [](wi.done => \E i \in Idx : Completion(i) /\ Succeeded(i))
  /\ []((mpc # "c_done" /\ \E i \in Idx : Completion(i) /\ Succeeded(i)) => wi.done)
  /\ [][(wi.done /\ leased' = leased) => wi'.done]_vars
  /\ [][(~wi.done /\ wi'.done) => (mpc = "c_done" /\ lock = "main")]_vars

\* C28 witness: the completion report has failed on every retry, the error
\* has left do_work, and the work item is not done.
C28_Witness ==
  /\ mpc = "loop_err"
  /\ Cardinality({i \in Idx : Completion(i) /\ Failed(i)}) = MaxRetries + 1
  /\ ~wi.done

\* The main thread is in stop_reporting_progress.
InStopReporting == mpc \in {"stop_set", "stop_wait", "flush_call", "flush_wait"}

\* C29: every call of stop_reporting_progress comes to its end, and once
\* _stop_reporting_progress is set _stopped is set eventually.
C29_StopReportingReturns ==
  /\ InStopReporting ~> ~InStopReporting
  /\ (stop_req /\ mpc = "stop_wait") ~> stopped

\* C30: until stop_reporting_progress has seen _stopped, the reporting
\* thread calls at most one progress report after _stop_reporting_progress
\* was set, that of the cycle which had passed the test of the flag; having
\* seen the flag at the test it leaves the loop, and it is in no new cycle
\* after such a report.
C30_AtMostOneReportAfterStop ==
  /\ [](late <= 1)
  /\ [](late # 0 =>
          rpc \in {"report_wait", "sleep", "check_stop", "finally", "ended"})
  /\ [][(rpc = "check_stop" /\ stop_req) => rpc' \in {"check_stop", "finally"}]_vars
  /\ []((stop_req /\ rpc \in {"lock", "check_done", "report"}) => late = 0)

\* C30 witness: a progress report was called after the flag was set, it has
\* returned, and the thread has set _stopped.
C30_Witness ==
  /\ late = 1
  /\ calls # <<>>
  /\ calls[Len(calls)].by = "loop"
  /\ calls[Len(calls)].res # "pending"
  /\ stopped
  /\ rpc = "ended"

\* ===================================================== claims C31 .. C33
\* The last report_status call of the work item is a completion report that
\* failed and no retry of it is to come.
CompletionExhausted ==
  /\ calls # << >>
  /\ Completion(Len(calls))
  /\ Failed(Len(calls))
  /\ mpc # "c_call"

\* C31: a completion report is called again only after the one before it
\* failed, and then with the same content (completed, report index, no
\* progress, no split result, the same exception_details and the same
\* source_operation_response); a failed completion report is followed by a
\* retry or by the error leaving do_work; when no retry is left the lock is
\* free, no reporting thread of the item runs, the item is not marked done,
\* do_work is over, and the handler of run() sleeps 1 s and goes back to
\* the while statement, which leases again unless shutdown() was called.
C31_FailedCompletionRetriedThenLoopContinues ==
  /\ [](\A i \in Idx : (i > 1 /\ Completion(i) /\ Completion(i - 1)) =>
          /\ Failed(i - 1)
          /\ calls[i].idx = calls[i - 1].idx
          /\ calls[i].prog = calls[i - 1].prog
          /\ calls[i].dsr = calls[i - 1].dsr
          /\ calls[i].exc = calls[i - 1].exc
          /\ calls[i].sor = calls[i - 1].sor)
  /\ [][(mpc = "c_wait" /\ mpc' # "c_wait" /\ calls'[Len(calls')].res = "fail") =>
          mpc' \in {"c_call", "loop_err"}]_vars
  /\ [](CompletionExhausted =>
          /\ lock = None
          /\ rpc \in {None, "ended"}
          /\ ~wi.done
          /\ mpc \in {"loop_err", "loop_top", "lease", "sleep_jitter", "returned"})
  /\ [][(CompletionExhausted /\ mpc = "loop_err" /\ mpc' # mpc) =>
          (mpc' = "loop_top" /\ last_sleep' = ErrorSleep)]_vars
  /\ [][(CompletionExhausted /\ mpc = "loop_top" /\ mpc' # mpc) =>
          mpc' = (IF shutdown THEN "returned" ELSE "lease")]_vars

\* C31 witness: the completion report of a source-split item whose
\* execute() raised failed and its retry, with the same content, failed as
\* well; the reporting thread has ended, the lock is free, run() has slept
\* 1 s and leases again.
C31_Witness ==
  /\ Len(calls) >= 2
  /\ Completion(Len(calls)) /\ Failed(Len(calls))
  /\ Completion(Len(calls) - 1) /\ Failed(Len(calls) - 1)
  /\ calls[Len(calls)].exc = "exec_err"
  /\ calls[Len(calls)].sor # None
  /\ rpc = "ended"
  /\ lock = None
  /\ last_sleep = ErrorSleep
  /\ mpc = "lease"

\* C32: deferred_exception_details, once set, keeps its value for the rest
\* of run(); with it set every leased work item, the first and the later
\* ones, is not executed and gets no reporting thread, every report called
\* for it is a completion report carrying the deferred error, and when
\* do_work is over for the item such a report has been called.
C32_DeferredErrorCompletesEveryItem ==
  /\ [][deferred # None => deferred' = deferred]_vars
  /\ []((deferred # None /\ leased >= 1) =>
          /\ executor \in {None, "built"}
          /\ rpc = None
          /\ \A i \in Idx : Completion(i) /\ calls[i].exc = deferred)
  /\ []((deferred # None /\ DoWorkEnded) =>
          \E i \in Idx : Completion(i) /\ calls[i].exc = deferred)

\* C33: progress reports, of the reporting thread and of the flush, carry
\* no source_operation_response; a completion report carries one exactly
\* when no deferred error is set and the work item is a source split, and
\* it is then the response the executor held after execute() returned or
\* raised.
C33_SourceResponseOnlyOnSplitCompletion ==
  \A i \in Idx :
    /\ Progress(i) => calls[i].sor = None
    /\ (Completion(i) /\ deferred # None) => calls[i].sor = None
    /\ (Completion(i) /\ wi.kind # "source_split") => calls[i].sor = None
    /\ (Completion(i) /\ deferred = None /\ wi.kind = "source_split") =>
         /\ executor \in {"ok", "raised"}
         /\ executor = "ok" => calls[i].sor = "split_response"
         /\ executor = "raised" => calls[i].sor = "response_at_raise"

\* C33 witness: a source split whose execute() returned; the reporting
\* thread and the flush each sent a progress report without a response, and
\* the acknowledged completion report carries the executor's response.
C33_Witness ==
  /\ wi.kind = "source_split"
  /\ executor = "ok"
  /\ \E i \in Idx : calls[i].by = "loop" /\ calls[i].sor = None
  /\ \E i \in Idx : calls[i].by = "flush" /\ calls[i].sor = None
  /\ \E i \in Idx : Completion(i) /\ Succeeded(i) /\ calls[i].sor = "split_response"

====
